---- MODULE Spec2Model ----
(***************************************************************************)
(* Model of the two functions the tutorial notebook defines itself:        *)
(*   prepare_confounds(conf, key='R', transpose=True)  -- the confound     *)
(*       loader: opens an HDF5 file, copies every item into a dict,        *)
(*       selects one array and optionally transposes it;                   *)
(*   fetch_data(n_subjects=30, ...)  -- the dataset fetcher: clamps the    *)
(*       subject count and builds the functional / confound file lists.    *)
(* Arrays are numpy-like values: a shape and the elements in C order.      *)
(***************************************************************************)
EXTENDS Integers, Sequences, FiniteSets, TLC

VARIABLES
    fs,           \* the files on disk: path -> state and key -> array items
    defaultMode,  \* the mode h5py.File uses when none is given ("a" or "r")
    openHandles,  \* File objects opened by prepare_confounds and not released
    last,         \* arguments and outcome of the latest prepare_confounds call
    kept,         \* a matrix the caller kept from an earlier successful call
    fetched       \* the Bunch returned by the latest fetch_data call

vars == <<fs, defaultMode, openHandles, last, kept, fetched>>

(* ------------------------------ bounds --------------------------------- *)

\* Largest extent of one axis of a stored array.
MaxDim == 3

\* Largest number of h5py File objects left open at once.
MaxOpen == 1

\* n_subjects arguments tried beyond max_subjects, and below zero.
MaxExtra == 2

(* ----------------------- numpy arrays (values) ------------------------- *)

Reverse(s) == [i \in 1..Len(s) |-> s[Len(s) + 1 - i]]

Front(s) == SubSeq(s, 1, Len(s) - 1)

RECURSIVE Size(_)
\* Number of elements of an array of the given shape (1 for rank 0).
Size(shape) == IF shape = <<>> THEN 1 ELSE Size(Front(shape)) * shape[Len(shape)]

RECURSIVE Unravel(_, _)
\* Multi-index of flat offset t (0-based) in C order.
Unravel(t, shape) ==
    IF shape = <<>> THEN <<>>
    ELSE Append(Unravel(t \div shape[Len(shape)], Front(shape)), t % shape[Len(shape)])

RECURSIVE Ravel(_, _)
\* Flat offset (0-based) of a multi-index in C order.
Ravel(idx, shape) ==
    IF shape = <<>> THEN 0
    ELSE Ravel(Front(idx), Front(shape)) * shape[Len(shape)] + idx[Len(idx)]

\* An array whose element at flat offset t is base + t: all elements distinct,
\* so any wrong permutation of the elements is visible.
Arange(shape, base) ==
    [shape |-> shape, data |-> [t \in 1..Size(shape) |-> base + t - 1]]

Rank(a) == Len(a.shape)

\* Element [i][j] (0-based) of a 2-D array.
Elem(a, i, j) == a.data[i * a.shape[2] + j + 1]

\* rot90-like mutant: axes swapped and the new rows reversed.
Transpose_rotated(a) ==
    LET shape == Reverse(a.shape)
        src(t) == LET idx == Reverse(Unravel(t, shape))
                  IN  Ravel([d \in 1..Len(idx) |->
                               IF d = 1 THEN a.shape[1] - 1 - idx[1] ELSE idx[d]],
                            a.shape)
    IN  [shape |-> shape,
         data  |-> [t \in 1..Size(shape) |->
                      IF Len(shape) < 2 THEN a.data[t] ELSE a.data[src(t - 1) + 1]]]

\* Mutant: the .T is forgotten.
Transpose_forgotten(a) == a

\* ndarray.T: the axes reversed (a no-op for rank 0 and rank 1).
Transpose(a) ==
    LET shape == Reverse(a.shape)
    IN  [shape |-> shape,
         data  |-> [t \in 1..Size(shape) |->
                      a.data[Ravel(Reverse(Unravel(t - 1, shape)), a.shape) + 1]]]

\* np.array(v): the dataset read into memory, element by element.
NpArray(v) == [shape |-> v.shape, data |-> [t \in 1..Size(v.shape) |-> v.data[t]]]

NoArray == [none |-> TRUE]

(* --------------------------- the file system --------------------------- *)

Paths == {"sub-pixar001.mat", "sub-pixar002.mat", "new.mat",
          "/nonexistent/path", "locked.mat"}

Keys == {"R", "names"}

EmptyDict == [k \in {} |-> NoArray]

Shapes == {<<>>} \cup {<<n>> : n \in 0..MaxDim}
                 \cup {<<p, n>> : p \in 0..MaxDim, n \in 0..MaxDim}

Readable(items) == [state |-> "readable", creatable |-> FALSE, items |-> items]

Unreadable == [state |-> "unreadable", creatable |-> FALSE, items |-> EmptyDict]

Absent(creatable) == [state |-> "absent", creatable |-> creatable, items |-> EmptyDict]

FileSystem(sR1, sR2) ==
    [p \in Paths |->
        CASE p = "sub-pixar001.mat" ->
                 Readable([k \in {"R", "names"} |->
                             IF k = "R" THEN Arange(sR1, 0) ELSE Arange(<<2>>, 100)])
          [] p = "sub-pixar002.mat" ->
                 Readable([k \in {"R"} |-> Arange(sR2, 200)])
          [] p = "new.mat"           -> Absent(TRUE)
          [] p = "/nonexistent/path" -> Absent(FALSE)
          [] OTHER                   -> Unreadable]

(* ------------------------- prepare_confounds --------------------------- *)

DefaultKey == "R"

DefaultTranspose == TRUE

\* h5py.File(conf) with no mode argument.  The default mode is the library's:
\* 'r' (read-only) from h5py 3.0 on, 'a' (read/write, create if missing) before.
\* Result: whether a File object was obtained, and the file system afterwards.
H5File(fsys, conf, mode) ==
    CASE fsys[conf].state = "readable"   -> [ok |-> TRUE, fs |-> fsys]
      [] fsys[conf].state = "unreadable" -> [ok |-> FALSE, fs |-> fsys]
      [] OTHER ->
           IF mode = "a" /\ fsys[conf].creatable
           THEN [ok |-> TRUE, fs |-> [fsys EXCEPT ![conf] = Readable(EmptyDict)]]
           ELSE [ok |-> FALSE, fs |-> fsys]

\* arrays = {}; for k, v in f.items(): arrays[k] = np.array(v)
Enumerate(items) == [k \in DOMAIN items |-> NpArray(items[k])]

\* Mutant: a missing key falls back to an empty array instead of raising.
Lookup_default(arrays, key) ==
    IF key \in DOMAIN arrays
    THEN [kind |-> "found", value |-> arrays[key]]
    ELSE [kind |-> "found", value |-> Arange(<<0>>, 0)]

\* arrays[key]: the array, or KeyError.
Lookup(arrays, key) ==
    IF key \in DOMAIN arrays
    THEN [kind |-> "found", value |-> arrays[key]]
    ELSE [kind |-> "KeyError", value |-> NoArray]

\* if transpose: output = arrays[key].T else: output = arrays[key]
Output(a, transpose) == IF transpose THEN Transpose(a) ELSE a

\* Mutant: the array returned is also stored back under its key (the file is
\* open read/write under the old default mode).
prepare_confounds_writeback(fsys, mode, conf, key, transpose) ==
    LET f == H5File(fsys, conf, mode)
        arrays == Enumerate(f.fs[conf].items)
        sel == Lookup(arrays, key)
    IN  IF ~f.ok
        THEN [kind |-> "OSError", output |-> NoArray, fs |-> f.fs,
              opened |-> FALSE, looked |-> FALSE]
        ELSE IF sel.kind = "KeyError"
        THEN [kind |-> "KeyError", output |-> NoArray, fs |-> f.fs,
              opened |-> TRUE, looked |-> TRUE]
        ELSE [kind |-> "returned", output |-> Output(sel.value, transpose),
              fs |-> [f.fs EXCEPT ![conf].items =
                        [k \in DOMAIN @ |-> IF k = key
                                            THEN Output(sel.value, transpose)
                                            ELSE @[k]]],
              opened |-> TRUE, looked |-> TRUE]

\* One call of prepare_confounds: its outcome, the file system afterwards,
\* whether a File object was opened and whether arrays[key] was evaluated.
prepare_confounds(fsys, mode, conf, key, transpose) ==
    LET f == H5File(fsys, conf, mode)
        arrays == Enumerate(f.fs[conf].items)
        sel == Lookup(arrays, key)
    IN  IF ~f.ok
        THEN [kind |-> "OSError", output |-> NoArray, fs |-> f.fs,
              opened |-> FALSE, looked |-> FALSE]
        ELSE IF sel.kind = "KeyError"
        THEN [kind |-> "KeyError", output |-> NoArray, fs |-> f.fs,
              opened |-> TRUE, looked |-> TRUE]
        ELSE [kind |-> "returned", output |-> Output(sel.value, transpose),
              fs |-> f.fs, opened |-> TRUE, looked |-> TRUE]

NoKept == [conf |-> "", key |-> "", transpose |-> FALSE, output |-> NoArray]

\* The caller already holds the matrix of an earlier call with these arguments.
SameCall(k, conf, key, transpose) ==
    k # NoKept /\ k.conf = conf /\ k.key = key /\ k.transpose = transpose

NoCall ==
    [kind |-> "none", defaulted |-> FALSE, conf |-> "", key |-> "",
     transpose |-> FALSE, pre |-> "", items |-> EmptyDict, output |-> NoArray,
     opened |-> FALSE, looked |-> FALSE, created |-> FALSE, again |-> FALSE]

\* A call prepare_confounds(conf, key, transpose).  The File object f is never
\* closed by the code; whether it is released when the call ends is up to the
\* runtime (reference counting releases it at once, a retained traceback or a
\* tracing collector does not).
Call(conf, key, transpose, defaulted) ==
    \E r \in {prepare_confounds(fs, defaultMode, conf, key, transpose)} :
        /\ \E released \in BOOLEAN :
               LET leak == IF r.opened /\ ~released THEN 1 ELSE 0
               IN  /\ openHandles + leak <= MaxOpen
                   /\ openHandles' = openHandles + leak
        /\ fs' = r.fs
        /\ last' = [kind |-> r.kind, defaulted |-> defaulted, conf |-> conf,
                    key |-> key, transpose |-> transpose,
                    pre |-> fs[conf].state,
                    items |-> fs[conf].items,
                    output |-> r.output, opened |-> r.opened,
                    looked |-> r.looked, created |-> (r.fs # fs),
                    again |-> SameCall(kept, conf, key, transpose)]
        /\ UNCHANGED <<defaultMode, kept, fetched>>

PrepareConfounds ==
    \E conf \in Paths, key \in Keys, transpose \in BOOLEAN :
        Call(conf, key, transpose, FALSE)

\* prepare_confounds(conf): both optional arguments left at their defaults.
PrepareConfoundsDefault ==
    \E conf \in Paths : Call(conf, DefaultKey, DefaultTranspose, TRUE)

\* The runtime finalizes a File object that is no longer referenced.
Finalize ==
    /\ openHandles > 0
    /\ openHandles' = openHandles - 1
    /\ UNCHANGED <<fs, defaultMode, last, kept, fetched>>

\* conf = prepare_confounds(...): the caller keeps the matrix just returned
\* (notebook cell 25), while further calls are made.
CallerKeeps ==
    /\ last.kind = "returned"
    /\ kept' = [conf |-> last.conf, key |-> last.key,
                transpose |-> last.transpose, output |-> last.output]
    /\ kept' # kept
    /\ UNCHANGED <<fs, defaultMode, openHandles, last, fetched>>

(* ----------------------------- fetch_data ------------------------------ *)

max_subjects == 155

DefaultNSubjects == 30

\* "from maximum of 40 subjects ... all 40 subjects will be loaded" (docstring).
doc_max_subjects == 40

\* The n_subjects argument: None or an integer.
NoneArg == [none |-> TRUE, value |-> 0]

IntArg(n) == [none |-> FALSE, value |-> n]

NSubjectsArgs ==
    {NoneArg} \cup {IntArg(n) : n \in (0 - MaxExtra)..(max_subjects + MaxExtra)}

\* if n_subjects is None: ...; if n_subjects > max_subjects: warn, clamp.
EffectiveCount(arg) ==
    LET n1 == IF arg.none THEN max_subjects ELSE arg.value
    IN  IF n1 > max_subjects
        THEN [n_subjects |-> max_subjects, warned |-> TRUE]
        ELSE [n_subjects |-> n1, warned |-> FALSE]

\* Mutant: range(n_subjects), zero-based.
ids_zero_based(n_subjects) == [i \in 1..n_subjects |-> i - 1]

\* ids = range(1, n_subjects + 1); empty when n_subjects < 1.
ids(n_subjects) == [i \in 1..n_subjects |-> i]

RECURSIVE Digits(_)
\* Decimal digits of a non-negative integer, most significant first.
Digits(i) == IF i < 10 THEN <<i>> ELSE Append(Digits(i \div 10), i % 10)

\* '%03i' % i: at least three digits, zero-padded on the left.
Fmt03i(i) ==
    LET d == Digits(i)
    IN  IF Len(d) >= 3 THEN d ELSE [k \in 1..(3 - Len(d)) |-> 0] \o d

\* '...sub-pixar%03i:sub-pixar%03i<suffix>' % (i, i)
FileName(i, suffix) ==
    [prefix |-> "derivatives:fmriprep:sub-pixar", dir |-> Fmt03i(i),
     infix |-> ":sub-pixar", file |-> Fmt03i(i), suffix |-> suffix]

FuncSuffix == "_task-pixar_run-001_swrf_bold.nii.gz"

ConfSuffix == "_task-pixar_run-001_ART_and_CompCor_nuisance_regressors.mat"

Min(a, b) == IF a < b THEN a ELSE b

\* (dict(),) * n_subjects: n copies, none when n_subjects < 1.
Opts(n_subjects) == [i \in 1..n_subjects |-> "dict()"]

\* zip(names, urls, opts): as long as the shortest of the three.
Zip(names, urls, opts) ==
    [i \in 1..Min(Len(names), Min(Len(urls), Len(opts))) |->
        [name |-> names[i], url |-> urls[i], opts |-> opts[i]]]

\* _fetch_files(data_dir, files): one local path per requested file, in order.
FetchFiles(data_dir, files) ==
    [i \in 1..Len(files) |-> [data_dir |-> data_dir, name |-> files[i].name]]

Urls(url, names) == [i \in 1..Len(names) |-> [url |-> url, name |-> names[i]]]

\* One call of fetch_data: the Bunch returned, with the effective subject
\* count and whether the warning was raised.
fetch_data(arg, defaulted) ==
    LET url == "https://openneuro.org/crn/datasets/ds000228/snapshots/00001/files/"
        data_dir == "ds000228"
        eff == EffectiveCount(arg)
        n == eff.n_subjects
        subj == ids(n)
        functionals == [i \in 1..Len(subj) |-> FileName(subj[i], FuncSuffix)]
        confounds == [i \in 1..Len(subj) |-> FileName(subj[i], ConfSuffix)]
    IN  [kind |-> "returned", arg |-> arg, defaulted |-> defaulted,
         n_subjects |-> n, warned |-> eff.warned,
         func |-> FetchFiles(data_dir, Zip(functionals, Urls(url, functionals), Opts(n))),
         confounds |-> FetchFiles(data_dir, Zip(confounds, Urls(url, confounds), Opts(n))),
         phenotypic |-> [data_dir |-> data_dir, name |-> "participants.tsv"],
         description |-> "ds000228"]

NoFetch ==
    [kind |-> "none", arg |-> NoneArg, defaulted |-> FALSE, n_subjects |-> 0,
     warned |-> FALSE, func |-> <<>>, confounds |-> <<>>,
     phenotypic |-> [data_dir |-> "", name |-> ""], description |-> ""]

FetchData ==
    /\ \E arg \in NSubjectsArgs : fetched' = fetch_data(arg, FALSE)
    /\ UNCHANGED <<fs, defaultMode, openHandles, last, kept>>

\* fetch_data(): n_subjects left at its default.
FetchDataDefault ==
    /\ fetched' = fetch_data(IntArg(DefaultNSubjects), TRUE)
    /\ UNCHANGED <<fs, defaultMode, openHandles, last, kept>>

(* --------------------------- specifications ---------------------------- *)

Init ==
    /\ \E sR1 \in Shapes : fs = FileSystem(sR1, <<MaxDim, 1>>)
    /\ defaultMode \in {"a", "r"}
    /\ openHandles = 0
    /\ last = NoCall
    /\ kept = NoKept
    /\ fetched = NoFetch

Next == PrepareConfounds \/ PrepareConfoundsDefault \/ Finalize \/ CallerKeeps

Spec == Init /\ [][Next]_vars

FetchInit ==
    /\ fs = FileSystem(<<2, MaxDim>>, <<MaxDim, 1>>)
    /\ defaultMode = "r"
    /\ openHandles = 0
    /\ last = NoCall
    /\ kept = NoKept
    /\ fetched = NoFetch

FetchNext == FetchData \/ FetchDataDefault

FetchSpec == FetchInit /\ [][FetchNext]_vars

(* ------------------------------ properties ----------------------------- *)

\* What the last call found under its key before it ran.
Stored == last.items[last.key]

HasKey == last.kind # "none" /\ last.pre = "readable" /\ last.key \in DOMAIN last.items

\* C1: for a file binding "R" to a 2-D array A of shape (p, n), the call
\* returns; with transpose it returns shape (n, p) with element [i][j] equal
\* to A[j][i], without it returns A itself; a call with the defaults asks for
\* key "R", transposed.
C1_TransposeShapeAndElements ==
    (/\ last.kind # "none"
     /\ last.pre = "readable"
     /\ "R" \in DOMAIN last.items
     /\ Rank(last.items["R"]) = 2
     /\ (last.key = "R" \/ last.defaulted))
    => LET A == last.items["R"]
           p == A.shape[1]
           n == A.shape[2]
           M == last.output
           T == last.transpose \/ last.defaulted
       IN  /\ last.kind = "returned"
           /\ T => /\ M.shape = <<n, p>>
                   /\ Len(M.data) = n * p
                   /\ \A i \in 0..(n - 1), j \in 0..(p - 1) : Elem(M, i, j) = Elem(A, j, i)
           /\ ~T => M = A

C1_Witness ==
    /\ last.kind = "returned" /\ last.defaulted /\ last.key = "R"
    /\ Rank(Stored) = 2 /\ Stored.shape = <<2, 3>>
    /\ last.output.shape = <<3, 2>>

\* C2: on a readable file that lacks the requested key the call ends in
\* KeyError, whatever transpose is, and returns no array.
C2_MissingKeyRaises ==
    (last.kind # "none" /\ last.pre = "readable" /\ last.key \notin DOMAIN last.items)
    => (last.kind = "KeyError" /\ last.output = NoArray /\ last.looked)

C2_Witness ==
    /\ last.kind = "KeyError" /\ last.pre = "readable"
    /\ last.conf = "sub-pixar002.mat" /\ last.key = "names" /\ ~last.transpose

\* C3 (as claimed): a path that does not exist or cannot be read ends in the
\* file-access error: no key lookup, no array, no file created or modified.
C3_MissingPathRaisesFileAccessError ==
    (last.kind # "none" /\ last.pre \in {"absent", "unreadable"})
    => (/\ last.kind = "OSError"
        /\ ~last.looked
        /\ last.output = NoArray
        /\ ~last.created)

\* C4 (as claimed): the File handle is released on every exit path, so no
\* handle is open after any sequence of calls.
C4_HandleReleasedOnEveryExit == openHandles = 0

\* C5: a call repeated with the arguments of an earlier successful call,
\* whatever calls were made in between, returns the identical array.
C5_RepeatedCallSameArray ==
    (last.again /\ SameCall(kept, last.conf, last.key, last.transpose))
    => (last.kind = "returned" /\ last.output = kept.output)

C5_Witness ==
    /\ last.again /\ last.kind = "returned" /\ last.output = kept.output
    /\ last.transpose /\ last.output.shape = <<3, 2>>

\* C6 (as claimed): a call has no side effect beyond reading: no step changes
\* the file system or any module-level state.
C6_NoSideEffect ==
    [][fs' = fs /\ defaultMode' = defaultMode /\ fetched' = fetched]_vars

\* C7 (as claimed): transposing an array of fewer than 2 dimensions fails
\* with ShapeError and returns nothing, so every returned array is 2-D.
C7_LowRankTransposeRaisesShapeError ==
    /\ (HasKey /\ last.transpose /\ Rank(Stored) < 2)
       => (last.kind = "ShapeError" /\ last.output = NoArray)
    /\ last.kind = "returned" => Rank(last.output) = 2

\* C8 (as claimed): at most 40 subjects are loaded: 30 by default, all 40
\* when n_subjects is None.
C8_AtMostFortySubjects ==
    fetched.kind = "returned"
    => /\ fetched.n_subjects <= doc_max_subjects
       /\ fetched.defaulted => fetched.n_subjects = DefaultNSubjects
       /\ fetched.arg.none => fetched.n_subjects = doc_max_subjects

RECURSIVE ParseInt(_)
\* The number a digit sequence spells.
ParseInt(d) == IF d = <<>> THEN 0 ELSE ParseInt(Front(d)) * 10 + d[Len(d)]

\* The effective count is the argument clamped to max_subjects, with a
\* warning exactly when it was above.
ClampedCount ==
    LET a == fetched.arg
    IN  /\ a.none => (fetched.n_subjects = max_subjects /\ ~fetched.warned)
        /\ (~a.none /\ a.value > max_subjects)
              => (fetched.n_subjects = max_subjects /\ fetched.warned)
        /\ (~a.none /\ a.value <= max_subjects)
              => (fetched.n_subjects = a.value /\ ~fetched.warned)

\* Both lists have m entries and entry i of each names subject i.
ListsNameSubjects(m) ==
    /\ Len(fetched.func) = m
    /\ Len(fetched.confounds) = m
    /\ \A i \in 1..m :
          /\ ParseInt(fetched.func[i].name.dir) = i
          /\ ParseInt(fetched.func[i].name.file) = i
          /\ fetched.func[i].name.suffix = FuncSuffix
          /\ ParseInt(fetched.confounds[i].name.dir) = i
          /\ ParseInt(fetched.confounds[i].name.file) = i
          /\ fetched.confounds[i].name.suffix = ConfSuffix

\* C9 (as claimed): the count is clamped, and for every effective count n
\* both lists have exactly n entries, entry i naming subject i.
C9_ListsHaveCountEntries ==
    fetched.kind = "returned"
    => (ClampedCount /\ ListsNameSubjects(fetched.n_subjects))

\* C9 (amended): the count is clamped, and for an effective count n both
\* lists have n entries when n >= 0 and none when n < 0 (a negative
\* n_subjects is used unchanged), entry i naming subject i.
C9_ListsHaveCountEntriesOrNone ==
    fetched.kind = "returned"
    => (/\ ClampedCount
        /\ ListsNameSubjects(IF fetched.n_subjects < 0 THEN 0 ELSE fetched.n_subjects))

C9_Witness ==
    /\ fetched.kind = "returned" /\ fetched.warned
    /\ Len(fetched.func) = max_subjects /\ Len(fetched.confounds) = max_subjects

\* C10: transposing a returned matrix twice gives it back, and the transpose
\* of the matrix loaded with transpose equals the one loaded without.
C10_TransposeRoundTrip ==
    /\ last.kind = "returned" => Transpose(Transpose(last.output)) = last.output
    /\ (/\ last.kind = "returned" /\ kept # NoKept
        /\ kept.conf = last.conf /\ kept.key = last.key
        /\ kept.transpose /\ ~last.transpose)
       => Transpose(kept.output) = last.output

C10_Witness ==
    /\ last.kind = "returned" /\ ~last.transpose /\ last.output.shape = <<2, 3>>
    /\ kept.conf = last.conf /\ kept.key = last.key /\ kept.transpose
    /\ kept.output.shape = <<3, 2>>

====
